---- MODULE Spec2Model ----
(***************************************************************************)
(* Model of capacity_reporter.py: the capacity aggregator                  *)
(* (analyze_capacity), the compliance classifier                           *)
(* (check_compliance_and_eol), the report formatter (generate_report),     *)
(* the loader (load_data) and the script body (__main__).                  *)
(*                                                                         *)
(* Representation.                                                         *)
(*  - An asset is a function from field names to values; a field the JSON  *)
(*    object does not hold is a field outside its DOMAIN, and reading it   *)
(*    raises KeyError.                                                     *)
(*  - A Python dict that is iterated (racks) is a sequence of entries in   *)
(*    insertion order.                                                     *)
(*  - A number formatted with a fixed number of fractional digits is the   *)
(*    integer count of its last digit: "4.8%" is 48 tenths, "0.50" is 50   *)
(*    hundredths.  The formatting rounds, so it is not the identity.       *)
(*  - Ages are whole years; watts and rack units are naturals.             *)
(*  - The report is the sequence of the lines that generate_report joins.  *)
(***************************************************************************)
EXTENDS Integers, Sequences, FiniteSets

VARIABLES
    dataFile,   \* contents of DATA_FILE on disk, or NoFile
    assets,     \* the list bound to `assets` (shared by every call)
    pc,         \* position of the script body
    racks,      \* analyze_capacity's local dict, as it stands at return
    capacity,   \* (capacity_metrics, total_assets, total_power_watts)
    risks,      \* (eol_assets, vendor_risk_assets)
    report,     \* report_output
    stdout      \* what has been printed

vars == <<dataFile, assets, pc, racks, capacity, risks, report, stdout>>

-----------------------------------------------------------------------------
(* Configuration, lines 4-8 *)

MAX_RACK_UNITS == 42
MAX_RACK_POWER_KVA == 5
EOL_AGE_YEARS == 5
CRITICAL_VENDORS == <<"HP", "EMC">>
\* the literal 1000.0 of lines 45 and 96
WattsPerKva == 1000

-----------------------------------------------------------------------------
(* Bounds of the model *)

MaxLen == 2        \* longest data file of the script runs with damaged records
MaxLenCap == 3     \* longest data file of the aggregation runs
MaxLenCls == 2     \* longest data file of the classification runs
MaxLenCalls == 2   \* longest asset list of the repeated-call runs

AssetIds == <<"A1", "A2", "A3", "A4", "A5", "A6">>

Fields == {"asset_id", "rack_id", "status", "rack_units", "power_watts",
           "asset_age_years", "vendor"}

NoFile == [exists |-> FALSE]
Unbound == [bound |-> FALSE]

Range(s) == {s[i] : i \in DOMAIN s}

-----------------------------------------------------------------------------
(* Number formatting *)

\* n/d rounded to the nearest integer, ties to even (n >= 0, d > 0): the
\* rounding of Python's format() on the exact quotient.
RoundHalfEven(n, d) ==
    LET q == n \div d
        r == n % d
    IN  IF 2 * r < d THEN q
        ELSE IF 2 * r > d THEN q + 1
        ELSE IF q % 2 = 0 THEN q ELSE q + 1

\* f"{num/den:.1f}" as a count of tenths
Format1f(num, den) == RoundHalfEven(num * 10, den)

\* f"{num/den:.2f}" as a count of hundredths.  Where the exact quotient ends
\* in a 5 at the third digit (watts ending in 5) Python rounds the binary
\* double, which lies to either side; no list drawn below sums to such watts.
Format2f(num, den) == RoundHalfEven(num * 100, den)

-----------------------------------------------------------------------------
(* analyze_capacity, lines 21-58 *)

\* asset[f] raises KeyError
KeyError(asset, f) == f \notin DOMAIN asset

\* position of rack_id among the keys of racks, 0 when it is not a key
RackIndex(rs, rack_id) ==
    IF \E i \in DOMAIN rs : rs[i].rack_id = rack_id
    THEN CHOOSE i \in DOMAIN rs : rs[i].rack_id = rack_id
    ELSE 0

\* a slip of line 36: only "Offline" is kept out of the sums
CountsTowardCapacity_NotOffline(asset) == asset["status"] # "Offline"

\* the asset adds to its rack's used space and power (line 36)
CountsTowardCapacity(asset) == asset["status"] = "Online"

\* one iteration of the loop of lines 27-38 raises
AggregateRaises(asset) ==
    \/ KeyError(asset, "rack_id")
    \/ KeyError(asset, "status")
    \/ /\ CountsTowardCapacity(asset)
       /\ KeyError(asset, "rack_units") \/ KeyError(asset, "power_watts")

\* a slip of lines 29-34: a new rack goes to the front of the racks
AddAsset_Prepend(rs, asset) ==
    LET rack_id == asset["rack_id"]
        rs1 == IF RackIndex(rs, rack_id) = 0
               THEN << [rack_id |-> rack_id,
                        units_used |-> 0,
                        power_used_watts |-> 0] >> \o rs
               ELSE rs
        k == RackIndex(rs1, rack_id)
    IN  IF asset["status"] = "Online"
        THEN [rs1 EXCEPT ![k].units_used = @ + asset["rack_units"],
                         ![k].power_used_watts = @ + asset["power_watts"]]
        ELSE rs1

\* one iteration of the loop of lines 27-38 that does not raise
AddAsset(rs, asset) ==
    LET rack_id == asset["rack_id"]
        rs1 == IF RackIndex(rs, rack_id) = 0
               THEN Append(rs, [rack_id |-> rack_id,
                                units_used |-> 0,
                                power_used_watts |-> 0])
               ELSE rs
        k == RackIndex(rs1, rack_id)
    IN  IF CountsTowardCapacity(asset)
        THEN [rs1 EXCEPT ![k].units_used = @ + asset["rack_units"],
                         ![k].power_used_watts = @ + asset["power_watts"]]
        ELSE rs1

\* the loop of lines 27-38 from asset i on
RECURSIVE BuildRacks(_, _, _)
BuildRacks(as, i, rs) ==
    IF i > Len(as) THEN [raised |-> FALSE, racks |-> rs]
    ELSE IF AggregateRaises(as[i]) THEN [raised |-> TRUE, racks |-> rs]
    ELSE BuildRacks(as, i + 1, AddAsset(rs, as[i]))

Min(a, b) == IF a < b THEN a ELSE b

\* a slip of lines 46-47: the utilization is capped at 100%
CapacityMetric_Clamped(m) ==
    [rack_id |-> m.rack_id,
     units_used |-> m.units_used,
     power_used_kva |-> Format2f(m.power_used_watts, WattsPerKva),
     power_utilization |->
         Min(1000, Format1f(m.power_used_watts * 100,
                            WattsPerKva * MAX_RACK_POWER_KVA)),
     units_utilization |->
         Min(1000, Format1f(m.units_used * 100, MAX_RACK_UNITS))]

\* the dict appended at lines 50-56
CapacityMetric(m) ==
    [rack_id |-> m.rack_id,
     units_used |-> m.units_used,
     power_used_kva |-> Format2f(m.power_used_watts, WattsPerKva),
     power_utilization |->
         Format1f(m.power_used_watts * 100, WattsPerKva * MAX_RACK_POWER_KVA),
     units_utilization |-> Format1f(m.units_used * 100, MAX_RACK_UNITS)]

\* total_power_used_watts after the loop of lines 44-56 over the first n racks
RECURSIVE TotalPowerUsed(_, _)
TotalPowerUsed(rs, n) ==
    IF n = 0 THEN 0 ELSE TotalPowerUsed(rs, n - 1) + rs[n].power_used_watts

\* a slip of line 24: only the online assets are counted
TotalAssets_OnlineOnly(as) ==
    Cardinality({i \in DOMAIN as : as[i]["status"] = "Online"})

\* total_assets, line 24
TotalAssets(as) == Len(as)

analyze_capacity(as) ==
    LET b == BuildRacks(as, 1, <<>>)
    IN  IF b.raised THEN [raised |-> TRUE, racks |-> b.racks]
        ELSE [raised |-> FALSE,
              racks |-> b.racks,
              capacity_metrics |->
                  [k \in 1..Len(b.racks) |-> CapacityMetric(b.racks[k])],
              total_assets |-> TotalAssets(as),
              total_power_used_watts |-> TotalPowerUsed(b.racks, Len(b.racks))]

-----------------------------------------------------------------------------
(* check_compliance_and_eol, lines 60-85 *)

\* a slip of line 68: the threshold is exclusive
IsEol_StrictAge(asset) ==
    /\ asset["asset_age_years"] > EOL_AGE_YEARS
    /\ asset["status"] # "Decom Pending"

\* the EOL test of line 68; `and` reads status only when the age qualifies
IsEol(asset) ==
    /\ asset["asset_age_years"] >= EOL_AGE_YEARS
    /\ asset["status"] # "Decom Pending"

\* a slip of line 77: the status is not looked at
IsVendorRisk_AnyStatus(asset) ==
    asset["vendor"] \in Range(CRITICAL_VENDORS)

\* the vendor test of line 77; `and` reads status only for a critical vendor
IsVendorRisk(asset) ==
    /\ asset["vendor"] \in Range(CRITICAL_VENDORS)
    /\ asset["status"] = "Online"

\* one iteration of the loop of lines 66-83 raises
ClassifyRaises(asset) ==
    \/ KeyError(asset, "asset_age_years")
    \/ /\ asset["asset_age_years"] >= EOL_AGE_YEARS
       /\ KeyError(asset, "status")
    \/ /\ IsEol(asset)
       /\ KeyError(asset, "asset_id") \/ KeyError(asset, "rack_id")
    \/ KeyError(asset, "vendor")
    \/ /\ asset["vendor"] \in Range(CRITICAL_VENDORS)
       /\ KeyError(asset, "status")
    \/ /\ IsVendorRisk(asset)
       /\ KeyError(asset, "asset_id") \/ KeyError(asset, "rack_id")

\* the dict appended at lines 69-74
EolEntry(asset) ==
    [id |-> asset["asset_id"], rack |-> asset["rack_id"],
     age |-> asset["asset_age_years"], status |-> "EOL Risk"]

\* the dict appended at lines 78-83
VendorEntry(asset) ==
    [id |-> asset["asset_id"], rack |-> asset["rack_id"],
     vendor |-> asset["vendor"], age |-> asset["asset_age_years"]]

\* the loop of lines 66-83 from asset i on
RECURSIVE Classify(_, _, _, _)
Classify(as, i, eol, vendor) ==
    IF i > Len(as)
    THEN [raised |-> FALSE, eol_assets |-> eol, vendor_risk_assets |-> vendor]
    ELSE IF ClassifyRaises(as[i]) THEN [raised |-> TRUE]
    ELSE Classify(as, i + 1,
                  IF IsEol(as[i]) THEN Append(eol, EolEntry(as[i])) ELSE eol,
                  IF IsVendorRisk(as[i])
                  THEN Append(vendor, VendorEntry(as[i])) ELSE vendor)

check_compliance_and_eol(as) == Classify(as, 1, <<>>, <<>>)

-----------------------------------------------------------------------------
(* generate_report, lines 87-136: the list `report`, one record per line *)

Line(kind) == [kind |-> kind]

\* lines 93-98
HeaderBlock(total_assets, total_power_watts) ==
    << Line("rule"),
       Line("title"),
       [kind |-> "total_assets", count |-> total_assets],
       [kind |-> "total_power",
        kva |-> Format2f(total_power_watts, WattsPerKva)],
       Line("rule"),
       Line("blank") >>

\* lines 101-106
CapacitySection(capacity_metrics) ==
    << Line("capacity_title"), Line("capacity_columns"), Line("capacity_rule") >>
    \o [k \in 1..Len(capacity_metrics) |->
           [kind |-> "capacity_row",
            rack_id |-> capacity_metrics[k].rack_id,
            units_used |-> capacity_metrics[k].units_used,
            power_used_kva |-> capacity_metrics[k].power_used_kva,
            units_utilization |-> capacity_metrics[k].units_utilization,
            power_utilization |-> capacity_metrics[k].power_utilization]]
    \o << Line("blank") >>

\* lines 112-119; the age is formatted with one fractional digit
EolSection(eol_assets) ==
    IF eol_assets # <<>>
    THEN << [kind |-> "eol_header", threshold |-> EOL_AGE_YEARS,
             count |-> Len(eol_assets)],
            Line("eol_columns"),
            Line("eol_rule") >>
         \o [k \in 1..Len(eol_assets) |->
                [kind |-> "eol_row",
                 id |-> eol_assets[k].id,
                 rack |-> eol_assets[k].rack,
                 age |-> Format1f(eol_assets[k].age, 1),
                 status |-> eol_assets[k].status]]
    ELSE << Line("eol_none") >>

\* a slip of lines 124-131: the table is written whether or not it has rows
VendorSection_EmptyTable(vendor_risk_assets) ==
    << [kind |-> "vendor_header", vendors |-> CRITICAL_VENDORS,
        count |-> Len(vendor_risk_assets)],
       Line("vendor_columns"),
       Line("vendor_rule") >>
    \o [k \in 1..Len(vendor_risk_assets) |->
           [kind |-> "vendor_row",
            id |-> vendor_risk_assets[k].id,
            rack |-> vendor_risk_assets[k].rack,
            vendor |-> vendor_risk_assets[k].vendor,
            age |-> Format1f(vendor_risk_assets[k].age, 1)]]

\* lines 124-131
VendorSection(vendor_risk_assets) ==
    IF vendor_risk_assets # <<>>
    THEN << [kind |-> "vendor_header", vendors |-> CRITICAL_VENDORS,
             count |-> Len(vendor_risk_assets)],
            Line("vendor_columns"),
            Line("vendor_rule") >>
         \o [k \in 1..Len(vendor_risk_assets) |->
                [kind |-> "vendor_row",
                 id |-> vendor_risk_assets[k].id,
                 rack |-> vendor_risk_assets[k].rack,
                 vendor |-> vendor_risk_assets[k].vendor,
                 age |-> Format1f(vendor_risk_assets[k].age, 1)]]
    ELSE << Line("vendor_none") >>

generate_report(capacity_metrics, total_assets, total_power_watts, eol_assets, vendor_risk_assets) ==
    HeaderBlock(total_assets, total_power_watts)
    \o CapacitySection(capacity_metrics)
    \o << Line("risks_title") >>
    \o EolSection(eol_assets)
    \o << Line("blank") >>
    \o VendorSection(vendor_risk_assets)
    \o << Line("blank"), Line("end_of_report") >>

-----------------------------------------------------------------------------
(* load_data, lines 10-19, and the script body, lines 138-154 *)

\* line 139: assets = load_data(DATA_FILE)
LoadData ==
    /\ pc = "load"
    /\ IF dataFile.exists
       THEN /\ assets' = dataFile.contents
            /\ UNCHANGED stdout
       ELSE /\ assets' = <<>>
            /\ stdout' = Append(stdout, Line("error_file_not_found"))
    /\ pc' = "if_assets"
    /\ UNCHANGED <<dataFile, racks, capacity, risks, report>>

\* line 140: if assets:
IfAssets ==
    /\ pc = "if_assets"
    /\ pc' = IF assets # <<>> THEN "analyze" ELSE "done"
    /\ UNCHANGED <<dataFile, assets, racks, capacity, risks, report, stdout>>

\* a slip of lines 27-38: the loop consumes the caller's list (pop)
CallAnalyzeCapacity_Consumes ==
    LET r == analyze_capacity(assets)
    IN  /\ racks' = r.racks
        /\ capacity' =
              IF r.raised THEN capacity
              ELSE [bound |-> TRUE,
                    capacity_metrics |-> r.capacity_metrics,
                    total_assets |-> r.total_assets,
                    total_power_watts |-> r.total_power_used_watts]
        /\ assets' = <<>>

\* the effect of one call analyze_capacity(assets) on the caller's state
CallAnalyzeCapacity ==
    LET r == analyze_capacity(assets)
    IN  /\ racks' = r.racks
        /\ capacity' =
              IF r.raised THEN capacity
              ELSE [bound |-> TRUE,
                    capacity_metrics |-> r.capacity_metrics,
                    total_assets |-> r.total_assets,
                    total_power_watts |-> r.total_power_used_watts]
        /\ assets' = assets

\* the effect of one call check_compliance_and_eol(assets)
CallCheckCompliance ==
    LET r == check_compliance_and_eol(assets)
    IN  /\ risks' =
              IF r.raised THEN risks
              ELSE [bound |-> TRUE,
                    eol_assets |-> r.eol_assets,
                    vendor_risk_assets |-> r.vendor_risk_assets]
        /\ assets' = assets

\* line 141
AnalyzeCapacity ==
    /\ pc = "analyze"
    /\ CallAnalyzeCapacity
    /\ pc' = IF analyze_capacity(assets).raised THEN "failed" ELSE "classify"
    /\ UNCHANGED <<dataFile, risks, report, stdout>>

\* line 142
CheckCompliance ==
    /\ pc = "classify"
    /\ CallCheckCompliance
    /\ pc' = IF check_compliance_and_eol(assets).raised
             THEN "failed" ELSE "report"
    /\ UNCHANGED <<dataFile, racks, capacity, report, stdout>>

\* lines 144-150
GenerateReport ==
    /\ pc = "report"
    /\ report' = [bound |-> TRUE,
                  lines |-> generate_report(capacity.capacity_metrics,
                                            capacity.total_assets,
                                            capacity.total_power_watts,
                                            risks.eol_assets,
                                            risks.vendor_risk_assets)]
    /\ pc' = "print"
    /\ UNCHANGED <<dataFile, assets, racks, capacity, risks, stdout>>

\* line 154
PrintReport ==
    /\ pc = "print"
    /\ stdout' = Append(stdout, [kind |-> "report", lines |-> report.lines])
    /\ pc' = "done"
    /\ UNCHANGED <<dataFile, assets, racks, capacity, risks, report>>

Next ==
    \/ LoadData
    \/ IfAssets
    \/ AnalyzeCapacity
    \/ CheckCompliance
    \/ GenerateReport
    \/ PrintReport

-----------------------------------------------------------------------------
(* Data files *)

\* the lists of at most n records drawn from Recs, asset ids by position
AssetLists(Recs, n) ==
    UNION { { [i \in 1..k |->
                 [f \in DOMAIN s[i] |->
                     IF f = "asset_id" THEN AssetIds[i] ELSE s[i][f]]] :
              s \in [1..k -> Recs] } : k \in 0..n }

Statuses == {"Online", "Offline", "Decom Pending"}

\* a record without field f
Without(rec, f) == [g \in DOMAIN rec \ {f} |-> rec[g]]

\* records of every status, age around the threshold, critical or other
\* vendor, whole or with one required field missing
DamagedRecords ==
    LET Whole == [asset_id : {"A"}, rack_id : {"R1"}, status : Statuses,
                  rack_units : {2}, power_watts : {500},
                  asset_age_years : {4, 6}, vendor : {"HP", "Dell"}]
    IN  Whole \cup {Without(rec, f) : rec \in Whole, f \in Fields}

\* (rack_units, power_watts) of the hardware in the aggregation runs: two of
\* the larger exceed a rack's 42 units, a larger and a smaller its 5000 W
Hardware == {<<2, 500>>, <<41, 4501>>}

\* records that differ in what the aggregator reads
CapacityRecords ==
    {[asset_id |-> "A", rack_id |-> r, status |-> s,
      rack_units |-> h[1], power_watts |-> h[2],
      asset_age_years |-> 1, vendor |-> "Dell"] :
        r \in {"R1", "R2"}, s \in Statuses, h \in Hardware}

\* records that differ in what the classifier reads
ComplianceRecords ==
    [asset_id : {"A"}, rack_id : {"R1"}, status : Statuses,
     rack_units : {2}, power_watts : {500},
     asset_age_years : {4, 5, 6}, vendor : {"HP", "EMC", "Dell"}]

\* the state before the script body runs, for data files drawn from Files
InitWith(Files) ==
    /\ dataFile \in {NoFile} \cup
                    {[exists |-> TRUE, contents |-> c] : c \in Files}
    /\ assets = <<>>
    /\ pc = "load"
    /\ racks = <<>>
    /\ capacity = Unbound
    /\ risks = Unbound
    /\ report = Unbound
    /\ stdout = <<>>

Init == InitWith(AssetLists(DamagedRecords, MaxLen))
InitCap == InitWith(AssetLists(CapacityRecords, MaxLenCap))
InitCls == InitWith(AssetLists(ComplianceRecords, MaxLenCls))

Spec == Init /\ [][Next]_vars
SpecCap == InitCap /\ [][Next]_vars
SpecCls == InitCls /\ [][Next]_vars

-----------------------------------------------------------------------------
(* A caller that holds one asset list and calls the two functions on it in   *)
(* any order, any number of times (a test suite, an importing module).       *)

\* well-formed records that differ in what either function reads
CallRecords ==
    [asset_id : {"A"}, rack_id : {"R1", "R2"}, status : Statuses,
     rack_units : {2}, power_watts : {500},
     asset_age_years : {4, 6}, vendor : {"HP", "Dell"}]

InitCalls ==
    /\ dataFile \in {[exists |-> TRUE, contents |-> c] :
                        c \in AssetLists(CallRecords, MaxLenCalls)}
    /\ assets = dataFile.contents
    /\ pc = "calls"
    /\ racks = <<>>
    /\ capacity = Unbound
    /\ risks = Unbound
    /\ report = Unbound
    /\ stdout = <<>>

AnalyzeInAnyOrder ==
    /\ pc = "calls"
    /\ CallAnalyzeCapacity
    /\ UNCHANGED <<dataFile, pc, risks, report, stdout>>

ClassifyInAnyOrder ==
    /\ pc = "calls"
    /\ CallCheckCompliance
    /\ UNCHANGED <<dataFile, pc, racks, capacity, report, stdout>>

NextCalls == AnalyzeInAnyOrder \/ ClassifyInAnyOrder

SpecCalls == InitCalls /\ [][NextCalls]_vars

-----------------------------------------------------------------------------
(* What the claims speak of *)

\* the record misses a required field
Malformed(asset) == \E f \in Fields : KeyError(asset, f)

\* the lines of the reports printed so far
PrintedReports == {stdout[i].lines : i \in {j \in DOMAIN stdout :
                                                stdout[j].kind = "report"}}

\* the lines of the given kinds, in order
OfKinds(lines, K) == SelectSeq(lines, LAMBDA l : l.kind \in K)

\* the report of zero assets: totals 0, no rack row, both "none" lines
IsEmptyReport(lines) ==
    /\ \E k \in DOMAIN lines :
          lines[k].kind = "total_assets" /\ lines[k].count = 0
    /\ \E k \in DOMAIN lines :
          lines[k].kind = "total_power" /\ lines[k].kva = 0
    /\ \A k \in DOMAIN lines : lines[k].kind # "capacity_row"
    /\ \E k \in DOMAIN lines : lines[k].kind = "eol_none"
    /\ \E k \in DOMAIN lines : lines[k].kind = "vendor_none"

\* C1: a run whose asset sequence is empty (no data file, or an empty one)
\* ends having printed the report of zero assets.
C1_EmptyInputStillReports ==
    (pc = "done" /\ assets = <<>>) =>
        \E lines \in PrintedReports : IsEmptyReport(lines)

\* C2: a run over a data file with a record that misses a required field
\* never prints a report and never ends as a successful run.
C2_MalformedRecordFailsRun ==
    (dataFile.exists /\ \E i \in DOMAIN dataFile.contents :
                            Malformed(dataFile.contents[i]))
        => (PrintedReports = {} /\ pc # "done")

-----------------------------------------------------------------------------
(* The aggregator's claims, over the aggregation runs (SpecCap) *)

\* the online assets of a rack, by position in the list
OnlineOf(as, rack_id) ==
    {i \in DOMAIN as : as[i]["rack_id"] = rack_id /\ as[i]["status"] = "Online"}

\* the sum of field f over the entries of s at the positions I
RECURSIVE SumField(_, _, _)
SumField(s, I, f) ==
    IF I = {} THEN 0
    ELSE LET i == CHOOSE j \in I : TRUE
         IN  s[i][f] + SumField(s, I \ {i}, f)

\* position of the first asset of a rack
FirstIndex(as, rack_id) ==
    CHOOSE i \in DOMAIN as :
        /\ as[i]["rack_id"] = rack_id
        /\ \A j \in 1..(i - 1) : as[j]["rack_id"] # rack_id

Abs(x) == IF x < 0 THEN -x ELSE x

\* C3: once analyze_capacity has returned, every rack's units_used (in the
\* rack aggregate and in its metric) is the sum of rack_units over exactly
\* the Online assets of that rack, and its accumulated power the sum of their
\* power_watts: other statuses and other racks' assets add nothing.
C3_RackSumsOnlineAssetsOfItsOwn ==
    capacity.bound =>
        \A k \in DOMAIN racks :
            LET I == OnlineOf(assets, racks[k].rack_id)
            IN  /\ racks[k].units_used = SumField(assets, I, "rack_units")
                /\ racks[k].power_used_watts = SumField(assets, I, "power_watts")
                /\ capacity.capacity_metrics[k].rack_id = racks[k].rack_id
                /\ capacity.capacity_metrics[k].units_used =
                       SumField(assets, I, "rack_units")

\* a rack with an Online and a not-Online asset, beside an Online asset of
\* another rack, has been aggregated
C3_Witness ==
    /\ capacity.bound
    /\ \E i, j, l \in DOMAIN assets :
          /\ assets[i]["rack_id"] = assets[j]["rack_id"]
          /\ assets[i]["status"] = "Online"
          /\ assets[j]["status"] # "Online"
          /\ assets[l]["rack_id"] # assets[i]["rack_id"]
          /\ assets[l]["status"] = "Online"

\* C4: the metrics hold exactly the rack ids of the input, each once, in the
\* order of their first occurrence; a rack with no Online asset is among
\* them with units_used 0 and both utilizations zero.
C4_OneMetricPerRackInFirstSeenOrder ==
    capacity.bound =>
        LET ms == capacity.capacity_metrics
        IN  /\ {ms[k].rack_id : k \in DOMAIN ms} =
                   {assets[i]["rack_id"] : i \in DOMAIN assets}
            /\ \A k, l \in DOMAIN ms :
                   k < l => FirstIndex(assets, ms[k].rack_id)
                                < FirstIndex(assets, ms[l].rack_id)
            /\ \A k \in DOMAIN ms :
                   OnlineOf(assets, ms[k].rack_id) = {} =>
                       /\ ms[k].units_used = 0
                       /\ ms[k].units_utilization = 0
                       /\ ms[k].power_utilization = 0

\* R2 is seen first, then R1, then R2 again, and R1 holds no Online asset
C4_Witness ==
    /\ capacity.bound
    /\ Len(assets) = 3
    /\ assets[1]["rack_id"] = "R2"
    /\ assets[2]["rack_id"] = "R1"
    /\ assets[3]["rack_id"] = "R2"
    /\ OnlineOf(assets, "R1") = {}
    /\ OnlineOf(assets, "R2") # {}

\* C5 as stated: the reported utilizations equal 100 * units_used / 42 and
\* 100 * (watts / 1000) / 5 exactly, and are above 100% whenever the rack's
\* online assets exceed 42 units or 5000 watts.  (Percentages are counted in
\* tenths: 100% is 1000.)
C5_ExactAndAbove100 ==
    capacity.bound =>
        \A k \in DOMAIN racks :
            LET m == capacity.capacity_metrics[k]
                u == racks[k].units_used
                w == racks[k].power_used_watts
            IN  /\ m.units_utilization * MAX_RACK_UNITS = 1000 * u
                /\ m.power_utilization * WattsPerKva * MAX_RACK_POWER_KVA
                       = 1000 * w
                /\ u > MAX_RACK_UNITS => m.units_utilization > 1000
                /\ w > WattsPerKva * MAX_RACK_POWER_KVA
                       => m.power_utilization > 1000

\* C5, amended: the reported utilizations are 100 * units_used / 42 and
\* 100 * (watts / 1000) / 5 rounded to one fractional digit, never capped:
\* above 42 units the reported space utilization is above 100.0%; above
\* 5000 watts the reported power utilization is at least 100.0%, and above
\* 100.0% as soon as the exact value rounds above it (100.05% and more).
C5_RoundedAndUnclamped ==
    capacity.bound =>
        \A k \in DOMAIN racks :
            LET m == capacity.capacity_metrics[k]
                u == racks[k].units_used
                w == racks[k].power_used_watts
                maxW == WattsPerKva * MAX_RACK_POWER_KVA
            IN  /\ 2 * Abs(m.units_utilization * MAX_RACK_UNITS - 1000 * u)
                       <= MAX_RACK_UNITS
                /\ 2 * Abs(m.power_utilization * maxW - 1000 * w) <= maxW
                /\ u > MAX_RACK_UNITS => m.units_utilization > 1000
                /\ w > maxW => m.power_utilization >= 1000
                /\ 2000 * w > 2001 * maxW => m.power_utilization > 1000

\* one rack is over 42 units and reports more than 100.0%, while its 5001
\* watts are reported as 100.0%; another stays below its limits
C5_Witness ==
    /\ capacity.bound
    /\ \E k, l \in DOMAIN racks :
          /\ racks[k].units_used > MAX_RACK_UNITS
          /\ racks[k].power_used_watts = 5001
          /\ capacity.capacity_metrics[k].units_utilization > 1000
          /\ capacity.capacity_metrics[k].power_utilization = 1000
          /\ racks[l].units_used = 2
          /\ capacity.capacity_metrics[l].units_utilization = 48

\* C8: total_assets is the number of all assets, Online or not; the total
\* power is the sum of power_watts over exactly the Online assets, which is
\* the sum of the racks' accumulated power.
C8_TotalsCountAllAssetsAndOnlinePower ==
    capacity.bound =>
        /\ capacity.total_assets = Cardinality(DOMAIN assets)
        /\ capacity.total_power_watts =
               SumField(assets,
                        {i \in DOMAIN assets : assets[i]["status"] = "Online"},
                        "power_watts")
        /\ capacity.total_power_watts =
               SumField(racks, DOMAIN racks, "power_used_watts")

\* totals over Online assets in two racks and an asset that is not Online
C8_Witness ==
    /\ capacity.bound
    /\ Len(racks) = 2
    /\ \A k \in DOMAIN racks : racks[k].power_used_watts > 0
    /\ \E i \in DOMAIN assets : assets[i]["status"] # "Online"
    /\ capacity.total_assets = 3

-----------------------------------------------------------------------------
(* The classifier's and the formatter's claims, over the classification runs *)
(* (SpecCls)                                                                *)

\* the k-th smallest position of I
KthOf(I, k) == CHOOSE i \in I : Cardinality({j \in I : j <= i}) = k

\* C6: the EOL sequence holds one entry per asset with
\* asset_age_years >= EOL_AGE_YEARS and status other than "Decom Pending",
\* in input order, and no other entry.
C6_EolIffOldAndNotDecomPending ==
    risks.bound =>
        LET eol == risks.eol_assets
            Q == {i \in DOMAIN assets :
                    /\ assets[i]["asset_age_years"] >= EOL_AGE_YEARS
                    /\ assets[i]["status"] # "Decom Pending"}
        IN  /\ Len(eol) = Cardinality(Q)
            /\ \A k \in DOMAIN eol :
                   LET a == assets[KthOf(Q, k)]
                   IN  /\ eol[k].id = a["asset_id"]
                       /\ eol[k].rack = a["rack_id"]
                       /\ eol[k].age = a["asset_age_years"]
                       /\ eol[k].status = "EOL Risk"

\* an asset exactly at the threshold is listed and an older one with
\* status "Decom Pending" is not
C6_Witness ==
    /\ risks.bound
    /\ \E i, j \in DOMAIN assets :
          /\ assets[i]["asset_age_years"] = EOL_AGE_YEARS
          /\ assets[i]["status"] # "Decom Pending"
          /\ assets[j]["asset_age_years"] > EOL_AGE_YEARS
          /\ assets[j]["status"] = "Decom Pending"
    /\ Len(risks.eol_assets) = 1

\* C7: the vendor-risk sequence holds one entry per asset whose vendor is HP
\* or EMC and whose status is "Online", in input order, and no other entry.
C7_VendorRiskIffCriticalAndOnline ==
    risks.bound =>
        LET vr == risks.vendor_risk_assets
            Q == {i \in DOMAIN assets :
                    /\ assets[i]["vendor"] \in {"HP", "EMC"}
                    /\ assets[i]["status"] = "Online"}
        IN  /\ Len(vr) = Cardinality(Q)
            /\ \A k \in DOMAIN vr :
                   LET a == assets[KthOf(Q, k)]
                   IN  /\ vr[k].id = a["asset_id"]
                       /\ vr[k].rack = a["rack_id"]
                       /\ vr[k].vendor = a["vendor"]
                       /\ vr[k].age = a["asset_age_years"]

\* an Online EMC asset is listed and an HP asset that is not Online is not
C7_Witness ==
    /\ risks.bound
    /\ \E i, j \in DOMAIN assets :
          /\ assets[i]["vendor"] = "EMC"
          /\ assets[i]["status"] = "Online"
          /\ assets[j]["vendor"] = "HP"
          /\ assets[j]["status"] # "Online"
    /\ Len(risks.vendor_risk_assets) = 1

EolKinds == {"eol_header", "eol_columns", "eol_rule", "eol_row", "eol_none"}
VendorKinds == {"vendor_header", "vendor_columns", "vendor_rule",
                "vendor_row", "vendor_none"}

\* the lines of the given kinds stand together in the report
Contiguous(lines, K) ==
    \A a, b \in DOMAIN lines :
        (lines[a].kind \in K /\ lines[b].kind \in K) =>
            \A c \in a..b : lines[c].kind \in K

\* a section of the report over the sequence es: a header with the count,
\* the table head and one row per entry in order when es is not empty, and
\* the single "none" line alone when it is
SectionFollows(lines, K, es, prefix) ==
    LET sec == OfKinds(lines, K)
    IN  /\ Contiguous(lines, K)
        /\ IF es # <<>>
           THEN /\ Len(sec) = 3 + Len(es)
                /\ sec[1].kind = prefix \o "_header"
                /\ sec[1].count = Len(es)
                /\ sec[2].kind = prefix \o "_columns"
                /\ sec[3].kind = prefix \o "_rule"
                /\ \A k \in DOMAIN es :
                       /\ sec[3 + k].kind = prefix \o "_row"
                       /\ sec[3 + k].id = es[k].id
           ELSE /\ Len(sec) = 1
                /\ sec[1].kind = prefix \o "_none"

\* C9: in the generated report each risk section follows its own sequence:
\* header with count and one row per entry in order when it is not empty,
\* the single "none" line and no header or row when it is.
C9_RiskSectionsBranchOnEmptiness ==
    report.bound =>
        /\ SectionFollows(report.lines, EolKinds, risks.eol_assets, "eol")
        /\ SectionFollows(report.lines, VendorKinds,
                          risks.vendor_risk_assets, "vendor")

\* a report with two EOL rows and no vendor risk
C9_Witness ==
    /\ report.bound
    /\ Len(risks.eol_assets) = 2
    /\ risks.vendor_risk_assets = <<>>
    /\ \E k \in DOMAIN report.lines : report.lines[k].kind = "vendor_none"
    /\ \E k \in DOMAIN report.lines : report.lines[k].kind = "eol_header"

-----------------------------------------------------------------------------
(* Independence of the two functions, over the repeated calls (SpecCalls) *)

====
